---- MODULE Spec2Model ----
(***************************************************************************)
(* A model of flake8_bandit.py: Flake8BanditConfig.from_config_file (the   *)
(* memoized resolution of the [bandit] configuration section) and          *)
(* BanditTester (_load_source, _check_source, run).                        *)
(*                                                                         *)
(* Strings are sequences of characters.  A "character" is a TLA+ string;   *)
(* where the code never looks inside a stretch of text (a directory name,  *)
(* a message) the stretch is one character of the model.  The characters   *)
(* the code does look at ("B", "S", ",", "/", ".") are always on their own.*)
(***************************************************************************)
EXTENDS Integers, Sequences, FiniteSets, TLC

VARIABLES
    disk,        \* the configuration file as the process would find it now
    cache,       \* lru_cache of from_config_file: key (the class) -> value
    stderr,      \* what has been written to sys.stderr, in order
    filename,    \* BanditTester.filename
    tree,        \* BanditTester.tree: "None" or "Module"
    lines,       \* BanditTester.lines: "None" or "lines"
    source,      \* what the analyzer finds in this file's syntax tree
    pc,          \* position of the generator run(): ready, suspended, done, raised
    config,      \* the local `config` of _check_source
    didRead,     \* whether this run's from_config_file() call read the disk
    invoked,     \* whether BanditNodeVisitor visited the tree
    warnings,    \* the list _check_source returned
    pos,         \* how many warnings the for loop of run() has consumed
    yielded,     \* the tuples run() has yielded so far, in order
    raised       \* the exception that left run(), if any

vars == <<disk, cache, stderr, filename, tree, lines, source, pc, config,
          didRead, invoked, warnings, pos, yielded, raised>>

----------------------------------------------------------------------------
(* Bounds of the model. *)

MaxFindings == 2
MaxDepth == 2
MaxListLen == 3
MaxOptLen == 2
MaxIdLen == 3

----------------------------------------------------------------------------
(* str operations used by the code. *)

\* All strings over alphabet A of length at most n.
Strings(A, n) == UNION {[1..k -> A] : k \in 0..n}

\* s.replace(old, new) for one-character old and new: every occurrence.
Replace(s, old, new) ==
    [i \in 1..Len(s) |-> IF s[i] = old THEN new ELSE s[i]]

\* s.split(sep): the pieces between the separators, empty pieces kept;
\* "".split(",") is [""].
RECURSIVE SplitFrom(_, _, _, _)
SplitFrom(s, sep, i, piece) ==
    IF i > Len(s) THEN <<piece>>
    ELSE IF s[i] = sep THEN <<piece>> \o SplitFrom(s, sep, i + 1, <<>>)
    ELSE SplitFrom(s, sep, i + 1, Append(piece, s[i]))

Split(s, sep) == SplitFrom(s, sep, 1, <<>>)

\* s.startswith(c) for a one-character c.
StartsWith(s, c) == s # <<>> /\ s[1] = c

----------------------------------------------------------------------------
(* pathlib.Path on POSIX, as far as the code uses it: construction from a  *)
(* string, equality/hash (set membership) and .parents.                    *)

RECURSIVE LeadingSlashes(_)
LeadingSlashes(s) ==
    IF StartsWith(s, "/") THEN 1 + LeadingSlashes(Tail(s)) ELSE 0

\* Exactly two leading slashes are kept as the root "//"; one, or three and
\* more, collapse to "/".
RootOf(s) ==
    LET k == LeadingSlashes(s)
    IN IF k = 0 THEN "" ELSE IF k = 2 THEN "//" ELSE "/"

\* Empty components and "." components are dropped; ".." is kept.
PartsOf(s) ==
    SelectSeq(Split(s, "/"), LAMBDA c : c # <<>> /\ c # <<".">>)

Path(s) == [root |-> RootOf(s), parts |-> PartsOf(s)]

\* Path.parents: every proper ancestor, down to the root or to Path(".").
Parents(p) ==
    {[root |-> p.root, parts |-> SubSeq(p.parts, 1, k)] : k \in 0..(Len(p.parts) - 1)}

----------------------------------------------------------------------------
(* Exceptions. *)

NoException == [cls |-> "None", msg |-> <<>>]

\* The classes configparser raises that derive from configparser.Error.
ConfigparserErrors == {"NoSectionError", "ParsingError", "InterpolationError"}

NoSectionMessage == <<"No section: 'bandit'">>

\* except (configparser.Error, KeyError, TypeError)
Caught(e) == e.cls \in ConfigparserErrors \cup {"KeyError", "TypeError"}

----------------------------------------------------------------------------
(* The configuration file, and what lines 37-41 get from it.               *)
(*   absent       no local configuration file is found                     *)
(*   undecodable  a file whose bytes do not decode: read() raises          *)
(*                UnicodeDecodeError (a ValueError)                        *)
(*   malformed    not INI syntax: read() raises ParsingError               *)
(*   nosection    INI syntax without a [bandit] section                    *)
(*   badinterp    a [bandit] value with a bad %-interpolation: items()     *)
(*                raises InterpolationError                                *)
(*   section      a [bandit] section; opts maps its keys to their values   *)

EmptyDict == <<>>

Plain(kind) == [kind |-> kind, opts |-> EmptyDict]

Section(opts) == [kind |-> "section", opts |-> opts]

\* ini_file = ...local_config_files(); config.read(ini_file);
\* bandit_config = {k: v for k, v in config.items("bandit")}
ReadBanditSection(file) ==
    CASE file.kind = "undecodable" ->
            [exc |-> [cls |-> "UnicodeDecodeError", msg |-> <<"codec can't decode">>],
             items |-> EmptyDict]
      [] file.kind = "malformed" ->
            [exc |-> [cls |-> "ParsingError", msg |-> <<"Source contains parsing errors">>],
             items |-> EmptyDict]
      [] file.kind \in {"absent", "nosection"} ->
            [exc |-> [cls |-> "NoSectionError", msg |-> NoSectionMessage],
             items |-> EmptyDict]
      [] file.kind = "badinterp" ->
            [exc |-> [cls |-> "InterpolationError", msg |-> <<"Bad value substitution">>],
             items |-> EmptyDict]
      [] OTHER -> [exc |-> NoException, items |-> file.opts]

\* if bandit_config.get(key): the key is there and its value is not empty.
Has(bandit_config, key) ==
    key \in DOMAIN bandit_config /\ bandit_config[key] # <<>>

\* Variants of RuleList: the remap in the direction of the findings, and
\* no remap.
RuleListOutbound(value) == Split(Replace(value, "B", "S"), ",")

RuleListNoRemap(value) == Split(value, ",")

\* bandit_config.get(key).replace("S", "B").split(",")
RuleList(value) == Split(Replace(value, "S", "B"), ",")

\* Variant of Relative: an absolute path kept as it is.
RelativeKept(path) == path

\* if path.startswith("/"): path = "." + path
Relative(path) == IF StartsWith(path, "/") THEN <<".">> \o path ELSE path

\* for path in value.split(","): ...; the_set.add(Path(path))
PathSet(value) ==
    LET paths == Split(value, ",")
    IN {Path(Relative(paths[i])) : i \in 1..Len(paths)}

Flake8BanditConfig(profile, target_paths, excluded_paths) ==
    [profile |-> profile, target_paths |-> target_paths,
     excluded_paths |-> excluded_paths]

\* The body of the try block, lines 43-68, for a section that was read.
Populate(bandit_config) ==
    LET exclude == IF Has(bandit_config, "skips")
                   THEN "exclude" :> RuleList(bandit_config["skips"])
                   ELSE EmptyDict
        include == IF Has(bandit_config, "tests")
                   THEN "include" :> RuleList(bandit_config["tests"])
                   ELSE EmptyDict
        target_paths == IF Has(bandit_config, "targets")
                        THEN PathSet(bandit_config["targets"])
                        ELSE {}
        excluded_paths == IF Has(bandit_config, "exclude")
                          THEN PathSet(bandit_config["exclude"])
                          ELSE {}
    IN Flake8BanditConfig(exclude @@ include, target_paths, excluded_paths)

\* Variant of Diagnostic: the missing section reported too.
DiagnosticAlways(e) == <<<<"Unable to parse config file: ">> \o e.msg>>

\* The except clause, lines 70-73: what it writes to sys.stderr.
Diagnostic(e) ==
    IF e.msg # NoSectionMessage
    THEN <<<<"Unable to parse config file: ">> \o e.msg>>
    ELSE <<>>

\* The uncached body of from_config_file.  Both calls that can raise come
\* before anything is populated, so at the except clause profile,
\* target_paths and excluded_paths still hold their defaults.
\*   exc    the exception that leaves the function (not caught), if any
\*   value  the returned Flake8BanditConfig
\*   err    what was written to sys.stderr
from_config_file_body(file) ==
    LET r == ReadBanditSection(file)
    IN IF r.exc = NoException
       THEN [exc |-> NoException, value |-> Populate(r.items), err |-> <<>>]
       ELSE IF Caught(r.exc)
       THEN [exc |-> NoException,
             value |-> Flake8BanditConfig(EmptyDict, {}, {}),
             err |-> Diagnostic(r.exc)]
       ELSE [exc |-> r.exc,
             value |-> Flake8BanditConfig(EmptyDict, {}, {}),
             err |-> <<>>]

\* @lru_cache(maxsize=32) on from_config_file(cls): one key, the class, so
\* the cache never fills and nothing is evicted.
CacheKey == "Flake8BanditConfig"

\* Variant of from_config_file: without the cache.
from_config_file_uncached(c, file) ==
    LET r == from_config_file_body(file)
    IN [hit |-> FALSE, exc |-> r.exc, value |-> r.value, err |-> r.err,
        cache |-> IF r.exc = NoException THEN CacheKey :> r.value ELSE c]

\* from_config_file() under lru_cache.  An exception is not cached.
\*   hit    the call was answered from the cache
from_config_file(c, file) ==
    IF CacheKey \in DOMAIN c
    THEN [hit |-> TRUE, exc |-> NoException, value |-> c[CacheKey],
          err |-> <<>>, cache |-> c]
    ELSE LET r == from_config_file_body(file)
         IN [hit |-> FALSE, exc |-> r.exc, value |-> r.value, err |-> r.err,
             cache |-> IF r.exc = NoException THEN CacheKey :> r.value ELSE c]

----------------------------------------------------------------------------
(* BanditTester. *)

\* _load_source, for a source that loads: the stdin names become "stdin",
\* the lines are read, and a missing tree is parsed from them.  (A source
\* that does not load or parse ends run() with the error; the host gives
\* the plugin a parsed tree, and a string as the file name.)
StdinNames == {<<"stdin">>, <<"-">>}

LoadedName(name) == IF name \in StdinNames THEN <<"stdin">> ELSE name

\* if not self.tree or not self.lines: self._load_source()
NeedsLoad(t, l) == t = "None" \/ l = "None"

\* Variants of Skipped: the targets checked before the exclusions, and
\* the exclusions alone.
SkippedTargetsFirst(cfg, name) ==
    LET filepath == Path(name)
        filepaths == Parents(filepath) \cup {filepath}
    IN IF cfg.target_paths # {}
       THEN Cardinality(cfg.target_paths \cap filepaths) = 0
       ELSE cfg.excluded_paths # {} /\ (cfg.excluded_paths \cap filepaths) # {}

SkippedExcludeOnly(cfg, name) ==
    LET filepath == Path(name)
        filepaths == Parents(filepath) \cup {filepath}
    IN cfg.excluded_paths # {} /\ (cfg.excluded_paths \cap filepaths) # {}

\* The early exit of _check_source, lines 98-107.
Skipped(cfg, name) ==
    LET filepath == Path(name)
        filepaths == Parents(filepath) \cup {filepath}
    IN \/ cfg.excluded_paths # {} /\ (cfg.excluded_paths \cap filepaths) # {}
       \/ cfg.target_paths # {} /\ Cardinality(cfg.target_paths \cap filepaths) = 0

\* One entry of the list _check_source returns, lines 119-128.
Warning(item) ==
    [test_id |-> Replace(item.test_id, "B", "S"),
     issue_text |-> item.text,
     line_number |-> item.lineno,
     severity |-> item.severity,
     confidence |-> item.confidence]

\* Variant of _check_source: the findings in reverse order.
_check_source_reversed(cfg, name, results) ==
    IF Skipped(cfg, name)
    THEN [invoked |-> FALSE, warnings |-> <<>>]
    ELSE [invoked |-> TRUE,
          warnings |-> [i \in 1..Len(results) |->
                           Warning(results[Len(results) + 1 - i])]]

\* _check_source after from_config_file() returned cfg.  results is what
\* bnv.tester.results holds once the visitor has walked the tree.
_check_source(cfg, name, results) ==
    IF Skipped(cfg, name)
    THEN [invoked |-> FALSE, warnings |-> <<>>]
    ELSE [invoked |-> TRUE,
          warnings |-> [i \in 1..Len(results) |-> Warning(results[i])]]

\* The tuple run() yields for one warning, lines 138-144.
AdapterType == "BanditTester"

Message(warn) ==
    warn.test_id \o <<" ">> \o warn.issue_text \o <<" (CL: ">>
        \o warn.confidence \o <<", risk: ">> \o warn.severity \o <<")">>

ResultTuple(warn) == <<warn.line_number, 0, Message(warn), AdapterType>>

----------------------------------------------------------------------------
(* Actions.  run() is a generator: each action is one next() of the host. *)

NoConfig == Flake8BanditConfig(EmptyDict, {}, {})

\* The for loop of run(), entered or resumed with k warnings consumed.
Loop(warns, k) ==
    IF k < Len(warns)
    THEN /\ yielded' = Append(yielded, ResultTuple(warns[k + 1]))
         /\ pos' = k + 1
         /\ pc' = "suspended"
    ELSE /\ pc' = "done"
         /\ UNCHANGED <<yielded, pos>>

\* The first next(): _load_source if needed, _check_source (which calls
\* from_config_file), and the loop up to its first yield.
RunFirst ==
    /\ pc = "ready"
    /\ LET load == NeedsLoad(tree, lines)
           name == IF load THEN LoadedName(filename) ELSE filename
           r == from_config_file(cache, disk)
       IN /\ filename' = name
          /\ tree' = IF load THEN "Module" ELSE tree
          /\ lines' = IF load THEN "lines" ELSE lines
          /\ cache' = r.cache
          /\ stderr' = stderr \o r.err
          /\ didRead' = ~r.hit
          /\ IF r.exc # NoException
             THEN /\ pc' = "raised"
                  /\ raised' = r.exc
                  /\ UNCHANGED <<config, invoked, warnings, pos, yielded>>
             ELSE LET cs == _check_source(r.value, name, source)
                  IN /\ config' = r.value
                     /\ invoked' = cs.invoked
                     /\ warnings' = cs.warnings
                     /\ Loop(cs.warnings, 0)
                     /\ UNCHANGED raised
    /\ UNCHANGED <<disk, source>>

\* A later next(): the loop goes on after the yield.
RunResume ==
    /\ pc = "suspended"
    /\ Loop(warnings, pos)
    /\ UNCHANGED <<disk, cache, stderr, filename, tree, lines, source, config,
                   didRead, invoked, warnings, raised>>

\* BanditTester(tree, filename, lines): the host makes a new adapter for
\* its next file, in the same process.
Construct(t, name, l, found) ==
    /\ filename' = name
    /\ tree' = t
    /\ lines' = l
    /\ source' = found
    /\ pc' = "ready"
    /\ config' = NoConfig
    /\ didRead' = FALSE
    /\ invoked' = FALSE
    /\ warnings' = <<>>
    /\ pos' = 0
    /\ yielded' = <<>>
    /\ raised' = NoException

NewFile(t, name, l, found) ==
    /\ pc \in {"done", "raised"}
    /\ Construct(t, name, l, found)
    /\ UNCHANGED <<disk, cache, stderr>>

\* The configuration file changes on disk while the process runs.
EditConfigFile(file) ==
    /\ disk # file
    /\ disk' = file
    /\ UNCHANGED <<cache, stderr, filename, tree, lines, source, pc, config,
                   didRead, invoked, warnings, pos, yielded, raised>>

\* The state after construction of the first adapter of a process.
Start(file, t, name, l, found) ==
    /\ disk = file
    /\ cache = EmptyDict
    /\ stderr = <<>>
    /\ filename = name
    /\ tree = t
    /\ lines = l
    /\ source = found
    /\ pc = "ready"
    /\ config = NoConfig
    /\ didRead = FALSE
    /\ invoked = FALSE
    /\ warnings = <<>>
    /\ pos = 0
    /\ yielded = <<>>
    /\ raised = NoException

----------------------------------------------------------------------------
(* Spec: one process checks file after file while the configuration file   *)
(* may change under it.                                                    *)

Str(s) == <<s>>

Finding(id, text, lineno, confidence, severity) ==
    [test_id |-> id, text |-> Str(text), lineno |-> lineno,
     confidence |-> Str(confidence), severity |-> Str(severity)]

B105 == Finding(<<"B", "1", "0", "5">>, "Hardcoded password", 3, "HIGH", "LOW")

B201 == Finding(<<"B", "2", "0", "1">>, "Flask app run with debug", 7, "MEDIUM", "HIGH")

Findings == {B105, B201}

Sources == Strings(Findings, MaxFindings)

IgnoredDir == <<"/", "project", "/", "ignored">>

IgnoredMod == <<"/", "project", "/", "ignored", "/", "mod.py">>

Files == {IgnoredMod, Tail(IgnoredMod), <<"-">>}

Configs ==
    {Plain(k) : k \in {"absent", "undecodable", "malformed", "nosection", "badinterp"}}
    \cup {Section("skips" :> <<"B", "1", "0", "1", ",", "S", "1", "0", "5">>),
          Section(("tests" :> <<"S", "2", "0", "1">>) @@ ("exclude" :> IgnoredDir)),
          Section(("targets" :> Tail(IgnoredDir)) @@ ("skips" :> <<>>))}

Presence(kind) == {"None", kind}

Init ==
    \E file \in Configs, name \in Files, found \in Sources,
       t \in Presence("Module"), l \in Presence("lines") :
        Start(file, t, name, l, found)

Next ==
    \/ RunFirst
    \/ RunResume
    \/ \E name \in Files, found \in Sources,
          t \in Presence("Module"), l \in Presence("lines") :
            NewFile(t, name, l, found)
    \/ \E file \in Configs : EditConfigFile(file)

Spec == Init /\ [][Next]_vars

----------------------------------------------------------------------------
(* One file checked by a fresh process: the specifications below differ    *)
(* in the configuration files, file names and findings they start from.    *)

NextOneFile ==
    \/ RunFirst
    \/ RunResume

(* SpecScope: the path filter, over [bandit] sections whose targets and    *)
(* exclude values are arbitrary short lists and over file names as the     *)
(* host passes them: relative, "./"-prefixed or absolute.                  *)

RECURSIVE Join(_)
Join(names) ==
    IF Len(names) = 1 THEN <<names[1]>>
    ELSE <<names[1], "/">> \o Join(Tail(names))

Prefixes == {<<>>, <<"/">>, <<".", "/">>}

ScopeFiles ==
    {prefix \o Join(names) :
        prefix \in Prefixes, names \in Strings({"a", "b"}, MaxDepth) \ {<<>>}}
    \cup {IgnoredMod, Tail(IgnoredMod)}

ListValues == Strings({"/", ",", ".", "a"}, MaxListLen) \cup {IgnoredDir}

FewLists == {<<>>, <<"a">>, <<"/", "b">>}

ScopeConfigs ==
    {Section(("exclude" :> pair[1]) @@ ("targets" :> pair[2])) :
        pair \in (ListValues \X FewLists) \cup (FewLists \X ListValues)}

InitScope ==
    \E file \in ScopeConfigs, name \in ScopeFiles :
        Start(file, "Module", name, "lines", <<B105>>)

SpecScope == InitScope /\ [][NextOneFile]_vars

(* SpecProfile: the rule profile, over [bandit] sections whose skips and   *)
(* tests values are arbitrary short strings.                               *)

OptValues == Strings({"B", "S", "1", ","}, MaxOptLen)

FewOpts == {<<>>, <<"S", "1">>}

ProfileConfigs ==
    {Section(("skips" :> pair[1]) @@ ("tests" :> pair[2])) :
        pair \in (OptValues \X FewOpts) \cup (FewOpts \X OptValues)}
    \cup {Section("skips" :> v) : v \in OptValues}
    \cup {Section("tests" :> v) : v \in OptValues}

InitProfile ==
    \E file \in ProfileConfigs :
        Start(file, "Module", Tail(IgnoredMod), "lines", <<B105>>)

SpecProfile == InitProfile /\ [][NextOneFile]_vars

(* SpecRemap: the two remaps.  A process without configuration reports a   *)
(* finding whose rule id is an arbitrary short string; the user then       *)
(* writes the reported id into the configuration file as the skips or the  *)
(* tests entry and checks the same file again in a new process.            *)

Ids == Strings({"B", "S", "0", "1"}, MaxIdLen)

\* The rule id at the head of a yielded message: the text before its
\* first " ".
ReportedId(result) == Split(result[3], " ")[1]

SkipReported(key) ==
    /\ pc = "done"
    /\ yielded # <<>>
    /\ disk.kind = "absent"
    /\ disk' = Section(key :> ReportedId(yielded[1]))
    /\ cache' = EmptyDict
    /\ stderr' = <<>>
    /\ Construct(tree, filename, lines, source)

InitRemap ==
    \E id \in Ids :
        Start(Plain("absent"), "Module", Tail(IgnoredMod), "lines",
              <<Finding(id, "Hardcoded password", 3, "HIGH", "LOW")>>)

NextRemap ==
    \/ RunFirst
    \/ RunResume
    \/ \E key \in {"skips", "tests"} : SkipReported(key)

SpecRemap == InitRemap /\ [][NextRemap]_vars

----------------------------------------------------------------------------
(* The claims. *)

Finished == pc \in {"suspended", "done"}

\* The file's own path and its ancestor directory paths.
OwnAndAncestors == Parents(Path(filename)) \cup {Path(filename)}

\* C1 (SpecScope): when the file's own path or one of its ancestor
\* directory paths is a member of excluded_paths, run() yields nothing and
\* the analyzer is not invoked, whatever target_paths contains.
C1_ExcludedYieldsNothing ==
    (Finished /\ OwnAndAncestors \cap config.excluded_paths # {})
        => (pc = "done" /\ yielded = <<>> /\ ~invoked)

C1_Witness ==
    /\ pc = "done"
    /\ source # <<>>
    /\ OwnAndAncestors \cap config.excluded_paths # {}
    /\ OwnAndAncestors \cap config.target_paths # {}
    /\ yielded = <<>>
    /\ ~invoked

\* C2 (SpecScope): when target_paths is not empty and neither the file's
\* own path nor one of its ancestor directory paths is a member of it,
\* run() yields nothing, also when excluded_paths is empty.
C2_UntargetedYieldsNothing ==
    (Finished /\ config.target_paths # {}
              /\ OwnAndAncestors \cap config.target_paths = {})
        => (pc = "done" /\ yielded = <<>> /\ ~invoked)

C2_Witness ==
    /\ pc = "done"
    /\ source # <<>>
    /\ config.excluded_paths = {}
    /\ config.target_paths # {}
    /\ OwnAndAncestors \cap config.target_paths = {}
    /\ yielded = <<>>

\* A leading old replaced by new, the rest of s as it is.
ReplaceFirstOnly(s, old, new) ==
    IF s # <<>> /\ s[1] = old THEN <<new>> \o Tail(s) ELSE s

\* The tuple the host is to receive for a finding whose rule id is "B"
\* and digits.
Expected(item) ==
    <<item.lineno, 0,
      (<<"S">> \o Tail(item.test_id)) \o <<" ">> \o item.text \o <<" (CL: ">>
          \o item.confidence \o <<", risk: ">> \o item.severity \o <<")">>,
      "BanditTester">>

\* C3 (Spec): for a file in scope run() yields one tuple per finding, in
\* the analyzer's order, each (line, 0, "<id> <text> (CL: <confidence>,
\* risk: <severity>)", adapter type) with the remapped rule id; none is
\* dropped, duplicated or reordered.
C3_OneTuplePerFinding ==
    (Finished /\ invoked)
        => /\ pos <= Len(source)
           /\ pc = "done" => pos = Len(source)
           /\ pc = "suspended" => pos >= 1
           /\ yielded = [i \in 1..pos |-> Expected(source[i])]

C3_Witness ==
    /\ pc = "done"
    /\ invoked
    /\ Len(source) = 2
    /\ source[1] # source[2]
    /\ yielded = <<Expected(source[1]), Expected(source[2])>>

\* C4 (SpecRemap), as claimed: the reported rule id is the analyzer's id
\* with a leading "B" replaced by "S" and every other character unchanged.
C4_LeadingLetterOnly ==
    (Finished /\ yielded # <<>>)
        => ReportedId(yielded[1]) = ReplaceFirstOnly(source[1].test_id, "B", "S")

C5_Memoized_Step ==
    CacheKey \in DOMAIN cache
        => /\ cache' = cache
           /\ (pc = "ready" /\ pc' # "ready")
                 => /\ config' = cache[CacheKey]
                    /\ ~didRead'
                    /\ stderr' = stderr
                    /\ pc' # "raised"

\* C5 (Spec): once from_config_file() has returned, every later call
\* returns the cached value and neither reads the configuration file nor
\* writes a diagnostic, whatever the file has become meanwhile.
C5_Memoized == [][C5_Memoized_Step]_vars

C5_Witness ==
    /\ pc = "done"
    /\ ~didRead
    /\ CacheKey \in DOMAIN cache
    /\ config = cache[CacheKey]
    /\ disk.kind = "section"
    /\ from_config_file_body(disk).value # config

C6_NoSectionIsSilent_Step ==
    (pc = "ready" /\ pc' # "ready" /\ cache = EmptyDict
                   /\ disk.kind \in {"absent", "nosection"})
        => /\ pc' # "raised"
           /\ didRead'
           /\ config'.profile = EmptyDict
           /\ config'.target_paths = {}
           /\ config'.excluded_paths = {}
           /\ stderr' = stderr
           /\ stderr' = <<>>

\* C6 (Spec): without a configuration file, and with one that has no
\* [bandit] section, from_config_file() returns the all-empty profile,
\* writes nothing to stderr and raises nothing.
C6_NoSectionIsSilent == [][C6_NoSectionIsSilent_Step]_vars

C6_Witness ==
    /\ pc = "done"
    /\ didRead
    /\ disk.kind = "nosection"
    /\ config = NoConfig
    /\ cache = CacheKey :> NoConfig
    /\ stderr = <<>>
    /\ yielded # <<>>

\* An absolute entry of the exclude value taken relative to the working
\* directory: its components, without a root.
UnderWorkingDirectory(entry) == [root |-> "", parts |-> PartsOf(entry)]

AbsoluteExcludes ==
    IF disk.kind = "section" /\ Has(disk.opts, "exclude")
    THEN {entry \in {Split(disk.opts["exclude"], ",")[i] :
                        i \in 1..Len(Split(disk.opts["exclude"], ","))} :
             StartsWith(entry, "/")}
    ELSE {}

\* C7 (SpecScope), as claimed: with exclude=/project/ignored, run() on the
\* file /project/ignored/mod.py yields nothing.
C7_AbsoluteFileExcluded ==
    (Finished /\ Has(disk.opts, "exclude") /\ disk.opts["exclude"] = IgnoredDir
              /\ filename = IgnoredMod)
        => yielded = <<>>

\* C7 (SpecScope), amended: an absolute exclude entry is stored relative to
\* the working directory, and excludes every file whose path, given
\* relative to the working directory, lies under the entry taken that way:
\* exclude=/project/ignored excludes project/ignored/mod.py.
C7_RelativeFileExcluded ==
    Finished
        => \A entry \in AbsoluteExcludes :
              UnderWorkingDirectory(entry) \in OwnAndAncestors
                  => (pc = "done" /\ yielded = <<>> /\ ~invoked)

C7_Witness ==
    /\ pc = "done"
    /\ disk = Section(("exclude" :> IgnoredDir) @@ ("targets" :> <<>>))
    /\ filename = Tail(IgnoredMod)
    /\ source # <<>>
    /\ yielded = <<>>
    /\ ~invoked

\* The entries of a comma-separated value, each changed by f.
Entries(value, f(_)) ==
    [i \in 1..Len(Split(value, ",")) |-> f(Split(value, ",")[i])]

BtoS(id) == ReplaceFirstOnly(id, "B", "S")

EveryStoB(id) == [i \in 1..Len(id) |-> IF id[i] = "S" THEN "B" ELSE id[i]]

\* C8 (SpecProfile), as claimed: a non-empty skips is stored under
\* profile["exclude"], and a non-empty tests under profile["include"], as
\* the list of its entries with the family prefix "B" replaced by "S".
C8_StoredAsHostIds ==
    Finished
        => /\ Has(disk.opts, "skips")
                => config.profile["exclude"] = Entries(disk.opts["skips"], BtoS)
           /\ Has(disk.opts, "tests")
                => config.profile["include"] = Entries(disk.opts["tests"], BtoS)

\* C8 (SpecProfile), amended: a non-empty skips is stored under
\* profile["exclude"], and a non-empty tests under profile["include"], as
\* the list of its comma-separated entries with every "S" replaced by "B":
\* from the host's letter to the analyzer's.  An empty or missing key
\* leaves its profile key unset.
C8_StoredAsAnalyzerIds ==
    Finished
        => /\ Has(disk.opts, "skips")
                => config.profile["exclude"] = Entries(disk.opts["skips"], EveryStoB)
           /\ Has(disk.opts, "tests")
                => config.profile["include"] = Entries(disk.opts["tests"], EveryStoB)
           /\ "exclude" \in DOMAIN config.profile <=> Has(disk.opts, "skips")
           /\ "include" \in DOMAIN config.profile <=> Has(disk.opts, "tests")

C8_Witness ==
    /\ pc = "done"
    /\ Has(disk.opts, "skips")
    /\ Has(disk.opts, "tests")
    /\ disk.opts["skips"] = <<"S", ",">>
    /\ config.profile["exclude"] = <<<<"B">>, <<>>>>
    /\ config.profile["include"] = <<<<"B", "1">>>>

\* The failure of lines 40-41 on a configuration file, other than the
\* missing section.
ParseFailure(file) ==
    /\ ReadBanditSection(file).exc # NoException
    /\ ReadBanditSection(file).exc.msg # NoSectionMessage

C9_ParseFailureNotFatal_Step ==
    (pc = "ready" /\ pc' # "ready" /\ cache = EmptyDict /\ ParseFailure(disk))
        => /\ pc' # "raised"
           /\ raised' = NoException
           /\ stderr' # stderr
           /\ config' = NoConfig

\* C9 (Spec), as claimed: a failure to parse the configuration other than
\* the missing section is not fatal: a diagnostic is written to stderr, a
\* profile is returned, and its fields are what they were at the failure
\* (the defaults: both calls that fail come before anything is populated).
C9_ParseFailureNotFatal == [][C9_ParseFailureNotFatal_Step]_vars

Digits == {"0", "1", "2", "3", "4", "5", "6", "7", "8", "9"}

AnalyzerShaped(id) ==
    /\ Len(id) >= 2
    /\ id[1] = "B"
    /\ \A i \in 2..Len(id) : id[i] \in Digits

ProfileKey(key) == IF key = "skips" THEN "exclude" ELSE "include"

\* C10 (SpecRemap): for an analyzer rule id of the shape "B" and digits,
\* the id run() reports, written as the skips or the tests entry, is stored
\* in the rule profile as the analyzer's id.
C10_InboundInvertsOutbound ==
    (Finished /\ disk.kind = "section" /\ AnalyzerShaped(source[1].test_id))
        => \A key \in DOMAIN disk.opts :
              /\ ProfileKey(key) \in DOMAIN config.profile
              /\ config.profile[ProfileKey(key)] = <<source[1].test_id>>

C10_Witness ==
    /\ pc = "done"
    /\ disk = Section("skips" :> <<"S", "1", "0">>)
    /\ source[1].test_id = <<"B", "1", "0">>
    /\ config.profile = "exclude" :> <<<<"B", "1", "0">>>>
    /\ ReportedId(yielded[1]) = <<"S", "1", "0">>

====
